---- MODULE Spec2Model ----
(***************************************************************************)
(* PollReader (src/PollReader.py): a CSV of poll records is read into six  *)
(* parallel columns and three aggregate queries are answered over them.    *)
(*                                                                         *)
(* Text is modelled as sequences of one-character strings.  Real numbers   *)
(* are modelled exactly: a parsed result is an integer count of 1/Scale,   *)
(* a quotient sum/len is the rational [num, den].  Floating-point rounding *)
(* is therefore not modelled; the inputs drawn below have at most three    *)
(* decimals, for which float() of equal texts is equal and of different    *)
(* texts differs by far more than the 1e-12 tolerance of line 95.          *)
(***************************************************************************)
EXTENDS Integers, Sequences, FiniteSets, TLC

VARIABLES pc, file_obj, raw_data, data_dict, builds, op, result

vars == <<pc, file_obj, raw_data, data_dict, builds, op, result>>

-----------------------------------------------------------------------------
(* Bounds of the model                                                     *)

\* data lines of a small input file
MaxData == 2
\* calls of build_data_dict on one object
MaxBuilds == 2
\* rows of one block of a long input file
BlockLen == 30

(* Resolution of the fixed-point model of float: 1 unit = 1/Scale          *)
ScaleDigits == 3
Scale == 10 ^ ScaleDigits

-----------------------------------------------------------------------------
(* Python str primitives                                                   *)

Digits == <<"0", "1", "2", "3", "4", "5", "6", "7", "8", "9">>

IsDigit(c) == \E i \in 1..10 : Digits[i] = c

DigitVal(c) == (CHOOSE i \in 1..10 : Digits[i] = c) - 1

IsSpace(c) == c \in {" ", "\n", "\t"}

RECURSIVE LStrip(_)
LStrip(s) ==
    IF s # <<>> /\ IsSpace(Head(s)) THEN LStrip(Tail(s)) ELSE s

RECURSIVE RStrip(_)
RStrip(s) ==
    IF s # <<>> /\ IsSpace(s[Len(s)])
    THEN RStrip(SubSeq(s, 1, Len(s) - 1))
    ELSE s

\* str.strip()
Strip(s) == RStrip(LStrip(s))

\* index of the first sep in s, 0 when there is none
FirstIndex(s, sep) ==
    IF \E i \in 1..Len(s) : s[i] = sep
    THEN CHOOSE i \in 1..Len(s) : s[i] = sep /\ \A j \in 1..(i - 1) : s[j] # sep
    ELSE 0

\* str.split(sep): empty fields are kept, "" gives [""]
RECURSIVE Split(_, _)
Split(s, sep) ==
    LET k == FirstIndex(s, sep)
    IN  IF k = 0
        THEN <<s>>
        ELSE <<SubSeq(s, 1, k - 1)>> \o Split(SubSeq(s, k + 1, Len(s)), sep)

\* the leading run of non-whitespace characters of s
RECURSIVE TakeToken(_)
TakeToken(s) ==
    IF s = <<>> \/ IsSpace(Head(s))
    THEN <<>>
    ELSE <<Head(s)>> \o TakeToken(Tail(s))

\* str.split() without argument: runs of whitespace separate, no empty token
RECURSIVE SplitWS(_)
SplitWS(s) ==
    LET t == LStrip(s)
    IN  IF t = <<>>
        THEN <<>>
        ELSE LET tok == TakeToken(t)
             IN  <<tok>> \o SplitWS(SubSeq(t, Len(tok) + 1, Len(t)))

AllDigits(s) == s # <<>> /\ \A i \in 1..Len(s) : IsDigit(s[i])

RECURSIVE DigitsVal(_)
DigitsVal(s) ==
    IF s = <<>>
    THEN 0
    ELSE 10 * DigitsVal(SubSeq(s, 1, Len(s) - 1)) + DigitVal(s[Len(s)])

HasSign(s) == s # <<>> /\ Head(s) \in {"+", "-"}

Unsigned(s) == IF HasSign(s) THEN Tail(s) ELSE s

Signed(s, v) == IF HasSign(s) /\ Head(s) = "-" THEN 0 - v ELSE v

\* int(s) raises ValueError unless s is [ws][sign]digits[ws]
IsInt(s) == AllDigits(Unsigned(Strip(s)))

\* int(s)
ParseInt(s) == Signed(Strip(s), DigitsVal(Unsigned(Strip(s))))

\* float(s) raises ValueError unless s is [ws][sign](digits[.[digits]] | .digits)[ws]
\* (exponents, inf, nan and underscores are outside the input alphabet)
IsFloat(s) ==
    LET u == Unsigned(Strip(s))
        p == Split(u, ".")
    IN  \/ Len(p) = 1 /\ AllDigits(p[1])
        \/ /\ Len(p) = 2
           /\ p[1] = <<>> \/ AllDigits(p[1])
           /\ p[2] = <<>> \/ AllDigits(p[2])
           /\ p[1] # <<>> \/ p[2] # <<>>

\* the first ScaleDigits fraction digits, right-padded with zeros
RECURSIVE FracVal(_, _)
FracVal(f, n) ==
    IF n = 0
    THEN 0
    ELSE IF f = <<>>
         THEN 0
         ELSE DigitVal(Head(f)) * (10 ^ (n - 1)) + FracVal(Tail(f), n - 1)

\* float(s), in units of 1/Scale
ParseFloat(s) ==
    LET u == Unsigned(Strip(s))
        p == Split(u, ".")
        ip == DigitsVal(p[1])
        fp == IF Len(p) = 2 THEN FracVal(p[2], ScaleDigits) ELSE 0
    IN  Signed(Strip(s), ip * Scale + fp)

-----------------------------------------------------------------------------
(* Exact quotients                                                         *)

\* a / b for b > 0
Rat(a, b) == [num |-> a, den |-> b]

\* the float 0.0
Zero == Rat(0, 1)

RatSub(x, y) == Rat(x.num * y.den - y.num * x.den, x.den * y.den)

RatEq(x, y) == x.num * y.den = y.num * x.den

-----------------------------------------------------------------------------
(* The table                                                               *)

\* data_dict as the constructor leaves it
EmptyDict ==
    [month |-> <<>>, date |-> <<>>, sample |-> <<>>, sample_type |-> <<>>,
     Harris_result |-> <<>>, Trump_result |-> <<>>]

NoRow == [month |-> <<>>, date |-> 0, sample |-> 0, sample_type |-> <<>>,
          harris |-> 0, trump |-> 0]

Raise(e) == [err |-> e, row |-> NoRow]

\* variant: the first two tokens are taken, further tokens are ignored
Unpacks_AtLeastTwo(toks) == Len(toks) >= 2

\* a, b = toks raises ValueError unless toks has exactly two entries
Unpacks(toks) == Len(toks) = 2

\* One pass of the loop body up to the appends: the exception raised, or the
\* six values to append.  parts[k] (1-based here) raises IndexError when the
\* line has fewer than k comma fields.
ParseRow(i) ==
    LET parts == Split(Strip(i), ",")
        n == Len(parts)
    IN  IF n < 2 THEN Raise("IndexError")
        ELSE IF ~IsInt(parts[2]) THEN Raise("ValueError")
        ELSE IF n < 3 THEN Raise("IndexError")
        ELSE LET toks == SplitWS(Strip(parts[3]))
             IN  IF ~Unpacks(toks) THEN Raise("ValueError")
                 ELSE IF ~IsInt(toks[1]) THEN Raise("ValueError")
                 ELSE IF n < 4 THEN Raise("IndexError")
                 ELSE IF ~IsFloat(parts[4]) THEN Raise("ValueError")
                 ELSE IF n < 5 THEN Raise("IndexError")
                 ELSE IF ~IsFloat(parts[5]) THEN Raise("ValueError")
                 ELSE [err |-> "",
                       row |-> [month |-> parts[1],
                                date |-> ParseInt(parts[2]),
                                sample |-> ParseInt(toks[1]),
                                sample_type |-> toks[2],
                                harris |-> ParseFloat(parts[4]),
                                trump |-> ParseFloat(parts[5])]]

\* the rows rs appended to the dictionary one after the other
AppendRows(dd, rs) ==
    [month |-> dd.month \o [j \in 1..Len(rs) |-> rs[j].month],
     date |-> dd.date \o [j \in 1..Len(rs) |-> rs[j].date],
     sample |-> dd.sample \o [j \in 1..Len(rs) |-> rs[j].sample],
     sample_type |-> dd.sample_type \o [j \in 1..Len(rs) |-> rs[j].sample_type],
     Harris_result |-> dd.Harris_result \o [j \in 1..Len(rs) |-> rs[j].harris],
     Trump_result |-> dd.Trump_result \o [j \in 1..Len(rs) |-> rs[j].trump]]

\* build_data_dict(self): the dictionary after the call and how it ended.
\* The for loop over raw_data[1:] (entries 2.. of raw, 1-based) appends a row
\* per line until the lines end or one raises at entry stop; the rows
\* appended before the exception stay in the dictionary.
build_data_dict(raw, dd) ==
    LET p == [k \in 2..Len(raw) |-> ParseRow(raw[k])]
        bad == {k \in 2..Len(raw) : p[k].err # ""}
        stop == IF bad = {}
                THEN Len(raw) + 1
                ELSE CHOOSE k \in bad : \A j \in bad : k <= j
        rows == [j \in 1..(stop - 2) |-> p[j + 1].row]
    IN  [dd |-> AppendRows(dd, rows),
         err |-> IF bad = {} THEN "" ELSE p[stop].err,
         line |-> IF bad = {} THEN 0 ELSE stop]

-----------------------------------------------------------------------------
(* Outcomes of the operations                                              *)

NoResult ==
    [kind |-> "none", err |-> "", line |-> 0, who |-> "", pct |-> 0,
     h |-> Zero, t |-> Zero]

Returned == [NoResult EXCEPT !.kind = "ok"]

Raised(e, k) == [NoResult EXCEPT !.kind = "error", !.err = e, !.line = k]

-----------------------------------------------------------------------------
(* The queries                                                             *)

\* max(seq) of a non-empty list: the first entry no other entry exceeds
PyMax(s) ==
    s[CHOOSE i \in 1..Len(s) :
          /\ \A j \in 1..Len(s) : ~(s[j] > s[i])
          /\ \A j \in 1..(i - 1) : s[i] > s[j]]

Abs(x) == IF x < 0 THEN 0 - x ELSE x

\* abs(a - b) < 1e-12 for a, b multiples of 1/Scale: 1/Scale > 1e-12, so the
\* difference is below the tolerance exactly when it is below one unit
Near(a, b) == Abs(a - b) < 1

\* f"{v*100:.1f}", as tenths of a percent
Format1f(v) == (v * 100 * 10) \div Scale

\* variant: no tie branch, Harris is reported when the maxima are equal
highest_polling_candidate_NoTie(dd) ==
    IF dd.Harris_result = <<>> \/ dd.Trump_result = <<>>
    THEN Raised("ValueError", 0)
    ELSE LET max_h == PyMax(dd.Harris_result)
             max_t == PyMax(dd.Trump_result)
         IN  IF max_h >= max_t
             THEN [Returned EXCEPT !.who = "Harris", !.pct = Format1f(max_h)]
             ELSE [Returned EXCEPT !.who = "Trump", !.pct = Format1f(max_t)]

\* variant: max(..., default=0.0), an empty table is reported as a tie at 0
highest_polling_candidate_Default(dd) ==
    LET max_h == IF dd.Harris_result = <<>> THEN 0 ELSE PyMax(dd.Harris_result)
        max_t == IF dd.Trump_result = <<>> THEN 0 ELSE PyMax(dd.Trump_result)
    IN  IF Near(max_h, max_t)
        THEN [Returned EXCEPT !.who = "EVEN", !.pct = Format1f(max_h)]
        ELSE IF max_h > max_t
             THEN [Returned EXCEPT !.who = "Harris", !.pct = Format1f(max_h)]
             ELSE [Returned EXCEPT !.who = "Trump", !.pct = Format1f(max_t)]

\* max() raises ValueError on an empty column
highest_polling_candidate(dd) ==
    IF dd.Harris_result = <<>> \/ dd.Trump_result = <<>>
    THEN Raised("ValueError", 0)
    ELSE LET max_h == PyMax(dd.Harris_result)
             max_t == PyMax(dd.Trump_result)
         IN  IF Near(max_h, max_t)
             THEN [Returned EXCEPT !.who = "EVEN", !.pct = Format1f(max_h)]
             ELSE IF max_h > max_t
                  THEN [Returned EXCEPT !.who = "Harris", !.pct = Format1f(max_h)]
                  ELSE [Returned EXCEPT !.who = "Trump", !.pct = Format1f(max_t)]

\* sum(s), the entries added pairwise (integer addition is associative)
RECURSIVE Sum(_)
Sum(s) ==
    IF s = <<>>
    THEN 0
    ELSE IF Len(s) = 1
         THEN s[1]
         ELSE LET m == Len(s) \div 2
              IN  Sum(SubSeq(s, 1, m)) + Sum(SubSeq(s, m + 1, Len(s)))

\* sum(v) / len(v) if v else 0.0
Avg(v) == IF v # <<>> THEN Rat(Sum(v), Len(v)) ELSE Zero

Min(a, b) == IF a < b THEN a ELSE b

LV == <<"L", "V">>

\* variant: the test on the sample type is missing, every row is collected
IsLikelyVoter_Any(st) == TRUE

\* the loop's test on the sample type of a row
IsLikelyVoter(st) == st = LV

\* the values of column col collected by the zip loop over rows 1..n
LVVals(st, col, n) ==
    LET zipped == [i \in 1..n |-> [st |-> st[i], v |-> col[i]]]
        kept == SelectSeq(zipped, LAMBDA r : IsLikelyVoter(r.st))
    IN  [i \in 1..Len(kept) |-> kept[i].v]

likely_voter_polling_average(dd) ==
    LET n == Min(Len(dd.sample_type),
                 Min(Len(dd.Harris_result), Len(dd.Trump_result)))
        h_vals == LVVals(dd.sample_type, dd.Harris_result, n)
        t_vals == LVVals(dd.sample_type, dd.Trump_result, n)
    IN  [Returned EXCEPT !.h = Avg(h_vals), !.t = Avg(t_vals)]

WINDOW == 30

\* s[:n]
Prefix(s, n) == SubSeq(s, 1, Min(n, Len(s)))

\* variant: s[n:], the rows after the first n
Suffix_FromN(s, n) == SubSeq(s, Min(n, Len(s)) + 1, Len(s))

\* s[-n:]
Suffix(s, n) == SubSeq(s, Len(s) - Min(n, Len(s)) + 1, Len(s))

polling_history_change(dd) ==
    LET h == dd.Harris_result
        t == dd.Trump_result
        latest_h == Prefix(h, WINDOW)
        latest_t == Prefix(t, WINDOW)
        earliest_h == Suffix(h, WINDOW)
        earliest_t == Suffix(t, WINDOW)
    IN  [Returned EXCEPT !.h = RatSub(Avg(latest_h), Avg(earliest_h)),
                         !.t = RatSub(Avg(latest_t), Avg(earliest_t))]

-----------------------------------------------------------------------------
(* Input files                                                             *)

Join(a, b, c, d, e) ==
    a \o <<",">> \o b \o <<",">> \o c \o <<",">> \o d \o <<",">> \o e

EOL(s) == s \o <<"\n">>

Header == EOL(Join(<<"m">>, <<"d">>, <<"s">>, <<"h">>, <<"t">>))

Oct == <<"O", "c", "t">>
D15 == <<"1", "5">>
S_LV == <<"9", "0", " ", "L", "V">>
S_RV == <<"9", "0", " ", "R", "V">>
R042 == <<"0", ".", "4", "2">>
R050 == <<"0", ".", "5", "0">>
R055 == <<"0", ".", "5", "5">>
R057 == <<"0", ".", "5", "7">>
R570 == <<"5", "7", ".", "0">>
R532 == <<"5", "3", ".", "2">>
Junk == <<"x">>

\* lines in the documented format, results written as fractions
G1 == EOL(Join(Oct, D15, S_LV, R055, R050))
G2 == EOL(Join(Oct, D15, S_RV, R050, R057))
G3 == EOL(Join(Oct, D15, S_LV, R050, R050))
G4 == EOL(Join(Oct, D15, S_RV, R057, R042))

GoodLines == {G1, G2, G3, G4}

\* the example line of the format description, results written as percentages
PctLine == EOL(Join(Oct, D15, S_LV, R570, R532))

\* two spaces between sample size and sample type
TwoSpaces == EOL(Join(Oct, D15, <<"9", "0", " ", " ", "L", "V">>, R055, R050))

\* a sixth comma field
SixFields == EOL(Join(Oct, D15, S_LV, R055, R050) \o <<",", "x">>)

BadLines ==
    { EOL(Join(Oct, Junk, S_LV, R055, R050)),
      EOL(Join(Oct, D15, <<"9", "0">>, R055, R050)),
      EOL(Join(Oct, D15, <<"9", "0", "L", "V">>, R055, R050)),
      EOL(Join(Oct, D15, <<"9", "0", " ", "L", " ", "V">>, R055, R050)),
      EOL(Join(Oct, D15, <<"x", " ", "L", "V">>, R055, R050)),
      EOL(Join(Oct, D15, S_LV, Junk, R050)),
      EOL(Oct \o <<",">> \o D15 \o <<",">> \o S_LV \o <<",">> \o R055),
      <<"\n">> }

LinePool == GoodLines \cup {PctLine, TwoSpaces, SixFields} \cup BadLines

\* a header and up to MaxData lines of the pool
SmallFiles ==
    { <<Header>> \o body :
        body \in UNION { [1..n -> LinePool] : n \in 0..MaxData } }

Repeat(l, n) == [k \in 1..n |-> l]

\* a header, then a block of one good line, then a block of another
BlockFiles ==
    { <<Header>> \o Repeat(a, m) \o Repeat(b, n) :
        a \in {G1, G2, G3}, b \in {G1, G2, G3},
        m \in {BlockLen - 1, BlockLen}, n \in {0, BlockLen - 1, BlockLen} }

\* what readlines() can return
Files == {<<>>} \cup SmallFiles \cup BlockFiles

-----------------------------------------------------------------------------
(* The object                                                              *)

Init ==
    /\ pc = "start"
    /\ file_obj = "none"
    /\ raw_data = <<>>
    /\ data_dict = EmptyDict
    /\ builds = 0
    /\ op = "__init__"
    /\ result = NoResult

\* line 28: open(self.full_path, 'r') returns a handle or raises
Open ==
    /\ pc = "start"
    /\ \/ /\ file_obj' = "open"
          /\ pc' = "opened"
          /\ UNCHANGED result
       \/ /\ pc' = "failed"
          /\ result' = Raised("FileNotFoundError", 0)
          /\ UNCHANGED file_obj
    /\ UNCHANGED <<raw_data, data_dict, builds, op>>

\* line 31: readlines() returns the lines or raises (an I/O error, bytes that
\* do not decode); the exception leaves __init__ at once
ReadLines ==
    /\ pc = "opened"
    /\ \/ /\ \E f \in Files : raw_data' = f
          /\ pc' = "read"
          /\ UNCHANGED result
       \/ /\ pc' = "failed"
          /\ result' = Raised("UnicodeDecodeError", 0)
          /\ UNCHANGED raw_data
    /\ UNCHANGED <<file_obj, data_dict, builds, op>>

\* lines 34-44: close() and the empty dictionary; __init__ returns
Close ==
    /\ pc = "read"
    /\ file_obj' = "closed"
    /\ data_dict' = EmptyDict
    /\ pc' = "ready"
    /\ UNCHANGED <<raw_data, builds, op, result>>

BuildDataDict ==
    /\ pc = "ready"
    /\ builds < MaxBuilds
    /\ LET r == build_data_dict(raw_data, data_dict)
       IN  /\ data_dict' = r.dd
           /\ result' = IF r.err = "" THEN Returned ELSE Raised(r.err, r.line)
    /\ builds' = builds + 1
    /\ op' = "build_data_dict"
    /\ UNCHANGED <<pc, file_obj, raw_data>>

\* variant: the maximum is found by popping the Harris column
HighestPollingCandidate_Pops ==
    /\ pc = "ready"
    /\ result' = highest_polling_candidate(data_dict)
    /\ op' = "highest_polling_candidate"
    /\ data_dict' =
          [data_dict EXCEPT !.Harris_result =
              SubSeq(@, 1, IF Len(@) = 0 THEN 0 ELSE Len(@) - 1)]
    /\ UNCHANGED <<pc, file_obj, raw_data, builds>>

HighestPollingCandidate ==
    /\ pc = "ready"
    /\ result' = highest_polling_candidate(data_dict)
    /\ op' = "highest_polling_candidate"
    /\ UNCHANGED <<pc, file_obj, raw_data, data_dict, builds>>

LikelyVoterPollingAverage ==
    /\ pc = "ready"
    /\ result' = likely_voter_polling_average(data_dict)
    /\ op' = "likely_voter_polling_average"
    /\ UNCHANGED <<pc, file_obj, raw_data, data_dict, builds>>

PollingHistoryChange ==
    /\ pc = "ready"
    /\ result' = polling_history_change(data_dict)
    /\ op' = "polling_history_change"
    /\ UNCHANGED <<pc, file_obj, raw_data, data_dict, builds>>

Next ==
    \/ Open
    \/ ReadLines
    \/ Close
    \/ BuildDataDict
    \/ HighestPollingCandidate
    \/ LikelyVoterPollingAverage
    \/ PollingHistoryChange

Spec == Init /\ [][Next]_vars

-----------------------------------------------------------------------------
(* Vocabulary of the properties                                            *)

Harris == data_dict.Harris_result
Trump == data_dict.Trump_result
NRows == Len(data_dict.date)

Queries ==
    {"highest_polling_candidate", "likely_voter_polling_average",
     "polling_history_change"}

\* the last call was build_data_dict, the first on this object
FirstBuild == pc = "ready" /\ op = "build_data_dict" /\ builds = 1

IsEmptyLine(l) == Strip(l) = <<>>

NonEmptyLines(raw) == Cardinality({k \in 1..Len(raw) : ~IsEmptyLine(raw[k])})

\* a header, then lines that are empty or hold a well-formed record
ValidFile(raw) ==
    /\ Len(raw) >= 1
    /\ ~IsEmptyLine(raw[1])
    /\ \A k \in 2..Len(raw) : IsEmptyLine(raw[k]) \/ ParseRow(raw[k]).err = ""

SameLength(n) ==
    /\ Len(data_dict.month) = n
    /\ Len(data_dict.date) = n
    /\ Len(data_dict.sample) = n
    /\ Len(data_dict.sample_type) = n
    /\ Len(data_dict.Harris_result) = n
    /\ Len(data_dict.Trump_result) = n

\* the largest member of a non-empty column, by its defining property
Largest(col) ==
    CHOOSE v \in {col[i] : i \in 1..Len(col)} :
        \A i \in 1..Len(col) : col[i] <= v

\* r is the percentage of the fraction v, in tenths of a percent
IsPercentOf(r, v) == r * Scale = v * 1000

\* the sum of col over the rows of the index set S that lie in lo..hi
RECURSIVE SumIn(_, _, _, _)
SumIn(col, S, lo, hi) ==
    IF lo > hi
    THEN 0
    ELSE IF lo = hi
         THEN IF lo \in S THEN col[lo] ELSE 0
         ELSE LET mid == (lo + hi) \div 2
              IN  SumIn(col, S, lo, mid) + SumIn(col, S, mid + 1, hi)

\* the sum of col over the rows in the index set S
SumOver(col, S) == SumIn(col, S, 1, Len(col))

\* q is the mean of col over the non-empty index set S
IsMeanOver(q, col, S) == q.num * Cardinality(S) = SumOver(col, S) * q.den

\* q is the difference of the means of col over S and over T, of equal size
IsMeanDiff(q, col, S, T) ==
    q.num * Cardinality(S) = (SumOver(col, S) - SumOver(col, T)) * q.den

LVRows == {i \in 1..Len(data_dict.sample_type) : data_dict.sample_type[i] = LV}

\* the third comma field of a line, empty when it has fewer fields
Field3(l) ==
    LET parts == Split(Strip(l), ",")
    IN  IF Len(parts) >= 3 THEN parts[3] ELSE <<>>

\* the positions of s where a whitespace-separated token starts
TokenStarts(s) ==
    {i \in 1..Len(s) : ~IsSpace(s[i]) /\ (i = 1 \/ IsSpace(s[i - 1]))}

\* the positions of s where a token ends
TokenEnds(s) ==
    {i \in 1..Len(s) : ~IsSpace(s[i]) /\ (i = Len(s) \/ IsSpace(s[i + 1]))}

SetMax(S) == CHOOSE v \in S : \A w \in S : w <= v

\* the last token of a text with at least one token
LastToken(s) == SubSeq(s, SetMax(TokenStarts(s)), SetMax(TokenEnds(s)))

\* two adjacent whitespace characters between the first and the last token
ExtraInternalSpace(s) ==
    \E i \in 1..(Len(s) - 1) :
        /\ IsSpace(s[i]) /\ IsSpace(s[i + 1])
        /\ \E a \in 1..(i - 1) : ~IsSpace(s[a])
        /\ \E b \in (i + 2)..Len(s) : ~IsSpace(s[b])

\* after the first build: the lines the loop appended a row for
AcceptedLines ==
    IF result.kind = "ok" THEN 2..Len(raw_data) ELSE 2..(result.line - 1)

-----------------------------------------------------------------------------
(* Properties                                                              *)

\* C1: after the first build_data_dict on a valid file the parse has not
\* failed and each of the six columns holds (number of non-empty lines) - 1
\* rows, empty data lines being skipped.
C1_RowCount ==
    (FirstBuild /\ ValidFile(raw_data)) =>
        /\ result.kind = "ok"
        /\ SameLength(NonEmptyLines(raw_data) - 1)

\* C2: a build_data_dict call that fails leaves the six columns as they were
\* before the call.
C2_AllOrNothing ==
    [][(builds' = builds + 1 /\ result'.kind = "error") => data_dict' = data_dict]_vars

\* C3: on non-empty result columns highest_polling_candidate returns EVEN
\* with the shared percentage when the two column maxima are equal, Harris
\* with the Harris maximum when it is greater, Trump with the Trump maximum
\* otherwise, and the percentage is that of the largest value of both columns.
C3_HighestPollingCandidate ==
    (op = "highest_polling_candidate" /\ NRows > 0) =>
        LET mh == Largest(Harris)
            mt == Largest(Trump)
        IN  /\ result.kind = "ok"
            /\ mh = mt => result.who = "EVEN" /\ IsPercentOf(result.pct, mh)
            /\ mh > mt => result.who = "Harris" /\ IsPercentOf(result.pct, mh)
            /\ mh < mt => result.who = "Trump" /\ IsPercentOf(result.pct, mt)
            /\ IsPercentOf(result.pct, Largest(Harris \o Trump))

\* C3 witness: EVEN is returned and the two maxima lie in different rows.
C3_Witness ==
    /\ op = "highest_polling_candidate"
    /\ result.who = "EVEN"
    /\ NRows >= 2
    /\ \A i \in 1..NRows :
          ~(Harris[i] = Largest(Harris) /\ Trump[i] = Largest(Trump))

\* C4: likely_voter_polling_average returns the means of the Harris and of
\* the Trump results over exactly the rows whose sample type is LV, and
\* (0.0, 0.0) without failing when there is no such row.
C4_LikelyVoterAverage ==
    (op = "likely_voter_polling_average") =>
        /\ result.kind = "ok"
        /\ result.h.den > 0 /\ result.t.den > 0
        /\ IF LVRows = {}
           THEN RatEq(result.h, Zero) /\ RatEq(result.t, Zero)
           ELSE /\ IsMeanOver(result.h, Harris, LVRows)
                /\ IsMeanOver(result.t, Trump, LVRows)

\* C4 witness: the table mixes LV rows and other rows with different results.
C4_Witness ==
    /\ op = "likely_voter_polling_average"
    /\ LVRows # {}
    /\ \E i \in 1..NRows : i \notin LVRows /\ \E j \in LVRows : Harris[i] # Harris[j]
    /\ ~RatEq(result.h, Zero)

\* C5: polling_history_change returns, for each candidate, the mean of the
\* first min(30, N) rows minus the mean of the last min(30, N) rows; it never
\* fails; with 60 rows, 0.55 in the first 30 and 0.50 in the last 30, the
\* Harris change is +0.05.
C5_PollingHistoryChange ==
    (op = "polling_history_change") =>
        LET m == Min(WINDOW, NRows)
            first == 1..m
            last == (NRows - m + 1)..NRows
        IN  /\ result.kind = "ok"
            /\ result.h.den > 0 /\ result.t.den > 0
            /\ NRows > 0 => /\ IsMeanDiff(result.h, Harris, first, last)
                            /\ IsMeanDiff(result.t, Trump, first, last)
            /\ ( /\ NRows = 2 * WINDOW
                 /\ \A i \in 1..WINDOW :
                       Harris[i] * 100 = 55 * Scale /\ Harris[WINDOW + i] * 100 = 50 * Scale )
               => RatEq(result.h, Rat(5 * Scale, 100))

\* C5 witness: the 60-row table of the example, with the change +0.05.
C5_Witness ==
    /\ op = "polling_history_change"
    /\ NRows = 2 * WINDOW
    /\ \A i \in 1..WINDOW :
          Harris[i] * 100 = 55 * Scale /\ Harris[WINDOW + i] * 100 = 50 * Scale
    /\ RatEq(result.h, Rat(5 * Scale, 100))

\* C6: highest_polling_candidate on a table without rows ends in an error
\* (Python's ValueError of max() on an empty list) and returns no string.
C6_EmptyTableFails ==
    (op = "highest_polling_candidate" /\ NRows = 0) =>
        /\ result.kind = "error"
        /\ result.err = "ValueError"
        /\ result.who = ""

\* C6 witness: the query has failed on a table parsed from a header-only file.
C6_Witness ==
    /\ op = "highest_polling_candidate"
    /\ builds = 1
    /\ raw_data = <<Header>>
    /\ result.kind = "error"

\* C7: once __init__ has ended, by returning or by raising, the file handle it
\* opened is released, and it is released before any parse.
C7_HandleReleased ==
    /\ pc \in {"ready", "failed"} => file_obj # "open"
    /\ builds > 0 => file_obj = "closed"

\* C8: after a successful parse every stored Harris and Trump result is a
\* fraction in [0, 1].
C8_ResultsAreFractions ==
    (op = "build_data_dict" /\ result.kind = "ok") =>
        \A i \in 1..NRows :
            /\ 0 <= Harris[i] /\ Harris[i] <= Scale
            /\ 0 <= Trump[i] /\ Trump[i] <= Scale

\* C9: a query step, failing or not, leaves the six columns and the raw lines
\* unchanged, and the same query repeated at once returns the same result.
C9_QueriesDoNotMutate ==
    [][(op' \in Queries) =>
          /\ data_dict' = data_dict
          /\ raw_data' = raw_data
          /\ op' = op => result' = result]_vars

\* C9 witness: a query has failed on a table that was never parsed.
C9_Witness ==
    /\ op \in Queries
    /\ builds = 0
    /\ result.kind = "error"

====
